---- MODULE Spec2Model ----
(***************************************************************************)
(* Model of the worker-configuration Reconciler                            *)
(* (pkg/component/controller/workerconfig/reconciler.go): the lifecycle    *)
(* state machine, the reconciliation goroutine, the enqueue/await protocol *)
(* of reconcile(), the leader-acquired callback and the retry ticker.      *)
(***************************************************************************)
EXTENDS Integers, Sequences, FiniteSets, TLC

\* ---------------------------------------------------------------- bounds
\* Number of operations started from outside in one run: Reconcile() calls,
\* Stop() calls that reach the stopped channel, and lease-acquired
\* notifications delivered to the callback. All of them may be concurrent.
MaxOps == 3
\* Number of distinct valid cluster configurations.
NumConfigs == 1
\* Capacity of the updates channel: make(chan updateFunc, 1).
QueueCap == 1

ReconcileCalls == 1..MaxOps
LeaderTasks == (MaxOps + 1)..(MaxOps + MaxOps)
Callers == ReconcileCalls \cup LeaderTasks
Stoppers == 1..MaxOps

\* ------------------------------------------------------------ data model
\* A configuration snapshot: `name` identifies its content (the custom
\* worker profile it carries), `yamlOk` tells whether that profile's raw
\* kubelet configuration decodes (yaml.Unmarshal in buildConfigMaps).
NoConfig == [name |-> 0, yamlOk |-> TRUE]
Configs == [name : 1..NumConfigs, yamlOk : {TRUE}] \cup {[name |-> 1, yamlOk |-> FALSE]}

\* var desiredState, reconciledState snapshot: the zero value.
ZeroSnapshot == [config |-> NoConfig, serial |-> 0]

\* The update closures handed to reconcile(): Reconcile sets the
\* configuration snapshot, the lease callback increments the serial.
ApplyUpdate(u, s) ==
    IF u.kind = "config"
    THEN [s EXCEPT !.config = u.cfg]
    ELSE [s EXCEPT !.serial = @ + 1]

\* DeepEqual comparing the configSnapshot pointers instead of what they
\* point to: two snapshots with a configuration are never equal.
DeepEqual_ByPointer(a, b) ==
    a.config = NoConfig /\ b.config = NoConfig /\ a.serial = b.serial

\* DeepEqual that leaves the serial out.
DeepEqual_IgnoreSerial(a, b) == a.config = b.config

\* reflect.DeepEqual(&reconciledState, &desiredState): every field.
DeepEqual(a, b) == a.config = b.config /\ a.serial = b.serial

\* desiredState.DeepCopy() / stateToReconcile.DeepCopyInto(&reconciledState).
DeepCopy(s) == [config |-> s.config, serial |-> s.serial]

\* SkipReason without the IsLeader() check.
SkipReason_NoLeaderCheck(leader, desired, reconciled) ==
    IF desired.config = NoConfig THEN "incomplete"
    ELSE IF reconciled.config = desired.config /\ reconciled.serial = desired.serial
    THEN "unchanged"
    ELSE "none"

\* SkipReason without the check for a missing configuration snapshot.
SkipReason_NoNilCheck(leader, desired, reconciled) ==
    IF ~leader THEN "notLeader"
    ELSE IF reconciled.config = desired.config /\ reconciled.serial = desired.serial
    THEN "unchanged"
    ELSE "none"

\* The early returns of runReconciliation after the context check, in the
\* order of the code: not the leader, snapshot not complete, nothing changed.
SkipReason(leader, desired, reconciled) ==
    IF ~leader THEN "notLeader"
    ELSE IF desired.config = NoConfig THEN "incomplete"
    ELSE IF DeepEqual(reconciled, desired) THEN "unchanged"
    ELSE "none"

\* ---- resource generation (generateResources and its helpers)
RECURSIVE SortedSeq(_)
SortedSeq(S) ==
    IF S = {} THEN <<>>
    ELSE LET m == CHOOSE x \in S : \A y \in S : x <= y
         IN <<m>> \o SortedSeq(S \ {m})

\* buildConfigMaps: the profiles "default" (rank 0) and "default-windows"
\* (rank 1) always exist, the snapshot's profile (rank name + 1) is added.
\* Names are ranks in the lexical order of the ConfigMap names.
ProfileNames(s) == {0, 1, s.config.name + 1}

\* buildConfigMaps fails when a profile's configuration does not decode.
GenerateFails(s) == ~s.config.yamlOk

\* buildRBACResources: a Role naming the ConfigMaps (sorted) and a
\* RoleBinding.
RBACResources(names) ==
    << [kind |-> "Role", names |-> SortedSeq(names)],
       [kind |-> "RoleBinding", names |-> <<>>] >>

ConfigMapResources(s) ==
    LET sorted == SortedSeq(ProfileNames(s))
    IN [i \in 1..Len(sorted) |-> [kind |-> "ConfigMap", names |-> <<sorted[i]>>]]

\* generateResources: sorted by Kind/Namespace/Name, so the ConfigMaps (by
\* name) come first, then the Role, then the RoleBinding. The serial is not
\* part of any resource.
Generate(s) == ConfigMapResources(s) \o RBACResources(ProfileNames(s))

\* ------------------------------------------------------------ variables
VARIABLES
    r,               \* Reconciler fields: state, apply, updates, requestStop, stopped
    stopPc,          \* per Stop call: idle, waiting (<-stopped), returned
    updates,         \* buffer of the updates channel
    ctxDone,         \* reconcilerCtx is cancelled
    cancelPending,   \* `go r.requestStop()` goroutines not yet run
    cancelCalls,     \* how many times cancelReconciler was requested
    stopped,         \* the stopped channel is closed
    workers,         \* reconciliation goroutines spawned so far
    callbackAdded,   \* AddAcquiredLeaseCallback was called
    isLeader,        \* what leaderElector.IsLeader() returns now
    acquires,        \* lease-acquired notifications delivered so far
    wpc,             \* position of the reconciliation goroutine
    desiredState,    \* runReconcileLoop local
    reconciledState, \* runReconcileLoop local
    lastRecoFailed,  \* runReconcileLoop local
    att,             \* the reconciliation attempt in progress
    callers,         \* per reconcile() invocation: position and update
    recoDone,        \* per reconcile() invocation: its reply channel
    ret,             \* what the step just taken returned to its caller, if it was the
                     \* return of Reconcile / reconcile or of a failed lifecycle call
    appliedTwice,    \* some update was applied to desiredState a second time
    streak,          \* bookkeeping over consecutive equal Reconcile updates
    everLeader       \* some attempt has seen IsLeader() = true

lifecycleVars == <<r, stopPc>>
channelVars == <<updates, ctxDone, cancelPending, cancelCalls, stopped>>
leaderVars == <<callbackAdded, isLeader, acquires>>
loopVars == <<wpc, desiredState, reconciledState, lastRecoFailed, att, streak, everLeader,
             appliedTwice>>
callerVars == <<callers, recoDone>>
InvalidState(op) == [op |-> op, res |-> "invalidState", afterStop |-> FALSE]
vars == <<lifecycleVars, channelVars, leaderVars, loopVars, callerVars, ret, workers>>

IdleAttempt ==
    [trigger |-> "none", from |-> 0, kind |-> "none", cfg |-> NoConfig, wasEqual |-> FALSE,
     cancelled |-> FALSE, leader |-> "unchecked", skip |-> "none",
     called |-> FALSE, err |-> "nil",
     stateToReconcile |-> ZeroSnapshot, resources |-> <<>>]

IdleCaller == [pc |-> "idle", cfg |-> NoConfig, afterStop |-> FALSE, queued |-> FALSE]

NoReturn == [op |-> "none", res |-> "none", afterStop |-> FALSE]

NoStreak == [len |-> 0, prevCalled |-> FALSE, curCalled |-> FALSE, ok |-> FALSE]

\* NewReconciler: state created, nothing else set. The leader elector is
\* external: the instance may or may not hold the lease already.
Init ==
    /\ r = [state |-> "created", apply |-> FALSE, updates |-> FALSE,
            requestStop |-> FALSE, stopped |-> FALSE]
    /\ stopPc = [s \in Stoppers |-> "idle"]
    /\ updates = <<>>
    /\ ctxDone = FALSE
    /\ cancelPending = 0
    /\ cancelCalls = 0
    /\ stopped = FALSE
    /\ workers = 0
    /\ callbackAdded = FALSE
    /\ isLeader \in BOOLEAN
    /\ acquires = 0
    /\ wpc = "none"
    /\ desiredState = ZeroSnapshot
    /\ reconciledState = ZeroSnapshot
    /\ lastRecoFailed = FALSE
    /\ att = IdleAttempt
    /\ callers = [c \in Callers |-> IdleCaller]
    /\ recoDone = [c \in Callers |-> "empty"]
    /\ ret = NoReturn
    /\ streak = NoStreak
    /\ everLeader = FALSE
    /\ appliedTwice = FALSE

\* Operations started so far, and whether one more may start.
OpsStarted ==
    Cardinality({c \in Callers : callers[c].pc # "idle"})
    + Cardinality({s \in Stoppers : stopPc[s] # "idle"})

MayStart == OpsStarted < MaxOps

\* ------------------------------------------------------------ lifecycle
\* Reconciler.Init: only from created; binds apply.
InitCall ==
    /\ IF r.state = "created"
       THEN /\ r' = [r EXCEPT !.apply = TRUE, !.state = "initialized"]
            /\ ret' = NoReturn
       ELSE /\ ret' = InvalidState("Init")
            /\ UNCHANGED r
    /\ UNCHANGED <<stopPc, channelVars, leaderVars, loopVars, callers, recoDone, workers>>

\* Start that also accepts the stopped state (a restart).
StartCall_Restart ==
    /\ IF r.state \in {"initialized", "stopped"}
       THEN /\ r' = [state |-> "started", apply |-> FALSE, updates |-> TRUE,
                     requestStop |-> TRUE, stopped |-> TRUE]
            /\ wpc' = "select"
            /\ workers' = workers + 1
            /\ callbackAdded' = TRUE
            /\ ret' = NoReturn
       ELSE /\ ret' = InvalidState("Start")
            /\ UNCHANGED <<r, wpc, workers, callbackAdded>>
    /\ UNCHANGED <<stopPc, channelVars, isLeader, acquires, desiredState,
                   reconciledState, lastRecoFailed, att, streak, everLeader, appliedTwice,
                   callers, recoDone>>

\* Reconciler.Start: only from initialized; makes the channels, spawns the
\* reconciliation goroutine, registers the lease callback, stores handles.
StartCall ==
    /\ IF r.state = "initialized"
       THEN /\ r' = [state |-> "started", apply |-> FALSE, updates |-> TRUE,
                     requestStop |-> TRUE, stopped |-> TRUE]
            /\ wpc' = "select"
            /\ workers' = workers + 1
            /\ callbackAdded' = TRUE
            /\ ret' = NoReturn
       ELSE /\ ret' = InvalidState("Start")
            /\ UNCHANGED <<r, wpc, workers, callbackAdded>>
    /\ UNCHANGED <<stopPc, channelVars, isLeader, acquires, desiredState,
                   reconciledState, lastRecoFailed, att, streak, everLeader, appliedTwice,
                   callers, recoDone>>

\* Stop that requests the cancellation again when already stopped.
StopCall_CancelAgain(s) ==
    /\ stopPc[s] = "idle"
    /\ \A q \in Stoppers : q < s => stopPc[q] # "idle"
    /\ r.state \in {"started", "stopped"} => MayStart
    /\ IF r.state \in {"started", "stopped"}
       THEN /\ r' = [r EXCEPT !.updates = FALSE, !.requestStop = FALSE, !.state = "stopped"]
            /\ cancelPending' = cancelPending + 1
            /\ cancelCalls' = cancelCalls + 1
            /\ stopPc' = [stopPc EXCEPT ![s] = "waiting"]
            /\ ret' = NoReturn
       ELSE /\ ret' = InvalidState("Stop")
            /\ UNCHANGED <<r, cancelPending, cancelCalls, stopPc>>
    /\ UNCHANGED <<updates, ctxDone, stopped, leaderVars, loopVars, callers, recoDone, workers>>

\* Stop whose locked section waits for the worker when already stopped.
StopCall_WaitLocked(s) ==
    /\ stopPc[s] = "idle"
    /\ \A q \in Stoppers : q < s => stopPc[q] # "idle"
    /\ r.state \in {"started", "stopped"} => MayStart
    /\ r.state = "stopped" => stopped
    /\ IF r.state = "started"
       THEN /\ r' = [r EXCEPT !.updates = FALSE, !.requestStop = FALSE, !.state = "stopped"]
            /\ cancelPending' = cancelPending + 1
            /\ cancelCalls' = cancelCalls + 1
            /\ stopPc' = [stopPc EXCEPT ![s] = "waiting"]
            /\ ret' = NoReturn
       ELSE IF r.state = "stopped"
       THEN /\ stopPc' = [stopPc EXCEPT ![s] = "waiting"]
            /\ ret' = NoReturn
            /\ UNCHANGED <<r, cancelPending, cancelCalls>>
       ELSE /\ ret' = InvalidState("Stop")
            /\ UNCHANGED <<r, cancelPending, cancelCalls, stopPc>>
    /\ UNCHANGED <<updates, ctxDone, stopped, leaderVars, loopVars, callers, recoDone, workers>>

\* Reconciler.Stop, the locked section: from started it spawns the
\* cancellation, clears the handles and moves to stopped; from stopped it
\* only picks up the completion channel; otherwise it fails and returns.
\* The Stop calls are numbered in the order in which they are made.
StopCall(s) ==
    /\ stopPc[s] = "idle"
    /\ \A q \in Stoppers : q < s => stopPc[q] # "idle"
    /\ r.state \in {"started", "stopped"} => MayStart
    /\ IF r.state = "started"
       THEN /\ r' = [r EXCEPT !.updates = FALSE, !.requestStop = FALSE, !.state = "stopped"]
            /\ cancelPending' = cancelPending + 1
            /\ cancelCalls' = cancelCalls + 1
            /\ stopPc' = [stopPc EXCEPT ![s] = "waiting"]
            /\ ret' = NoReturn
       ELSE IF r.state = "stopped"
       THEN /\ stopPc' = [stopPc EXCEPT ![s] = "waiting"]
            /\ ret' = NoReturn
            /\ UNCHANGED <<r, cancelPending, cancelCalls>>
       ELSE /\ ret' = InvalidState("Stop")
            /\ UNCHANGED <<r, cancelPending, cancelCalls, stopPc>>
    /\ UNCHANGED <<updates, ctxDone, stopped, leaderVars, loopVars, callers, recoDone, workers>>

\* Stop that returns without waiting for the stopped channel.
StopReturn_NoWait(s) ==
    /\ stopPc[s] = "waiting"
    /\ stopPc' = [stopPc EXCEPT ![s] = "returned"]
    /\ ret' = NoReturn
    /\ UNCHANGED <<r, channelVars, leaderVars, loopVars, callerVars, workers>>

\* Reconciler.Stop: <-stopped, then return nil.
StopReturn(s) ==
    /\ stopPc[s] = "waiting"
    /\ stopped
    /\ stopPc' = [stopPc EXCEPT ![s] = "returned"]
    /\ ret' = NoReturn
    /\ UNCHANGED <<r, channelVars, leaderVars, loopVars, callerVars, workers>>

\* The goroutine `go r.requestStop()`: cancels reconcilerCtx.
RequestStop ==
    /\ cancelPending > 0
    /\ cancelPending' = cancelPending - 1
    /\ ctxDone' = TRUE
    /\ ret' = NoReturn
    /\ UNCHANGED <<lifecycleVars, updates, cancelCalls, stopped, leaderVars, loopVars,
                   callerVars, workers>>

StopHasReturned == \E s \in Stoppers : stopPc[s] = "returned"

\* ------------------------------------------------- Reconcile / reconcile
\* Reconcile calls reconcile() for the host, the lease callback for itself.
OpOf(c) == IF c \in ReconcileCalls THEN "Reconcile" ELSE "callback"

\* A call returns: its record is finished, its result becomes the latest
\* return.
Return(c, res) ==
    /\ callers' = [callers EXCEPT ![c] = [@ EXCEPT !.pc = "done", !.cfg = NoConfig,
                                                    !.afterStop = FALSE]]
    /\ ret' = [op |-> OpOf(c), res |-> res, afterStop |-> callers[c].afterStop]

\* Reconciler.Reconcile, the locked section and takeConfigSnapshot: fails
\* unless started, otherwise captures the handles and the configuration.
\* The calls are numbered in the order in which they are made.
ReconcileCall(c, cfg) ==
    /\ c \in ReconcileCalls
    /\ callers[c].pc = "idle"
    /\ \A d \in ReconcileCalls : d < c => callers[d].pc # "idle"
    /\ MayStart
    /\ IF r.state = "started"
       THEN /\ callers' = [callers EXCEPT ![c] = [@ EXCEPT !.pc = "enqueue", !.cfg = cfg,
                                                           !.afterStop = StopHasReturned]]
            /\ ret' = NoReturn
       ELSE /\ callers' = [callers EXCEPT ![c] = [@ EXCEPT !.pc = "done"]]
            /\ ret' = [op |-> "Reconcile", res |-> "invalidState", afterStop |-> StopHasReturned]
    /\ UNCHANGED <<recoDone, lifecycleVars, channelVars, leaderVars, loopVars, workers>>

\* The update closure a caller hands to reconcile().
UpdateOf(c) ==
    [from |-> c,
     kind |-> IF c \in ReconcileCalls THEN "config" ELSE "serial",
     cfg |-> callers[c].cfg]

\* Enqueue on a channel without a capacity limit.
Enqueue_Unbounded(c) ==
    /\ callers[c].pc = "enqueue"
    /\ updates' = Append(updates, UpdateOf(c))
    /\ callers' = [callers EXCEPT ![c] = [@ EXCEPT !.pc = "await", !.cfg = NoConfig,
                                                    !.queued = TRUE]]
    /\ ret' = NoReturn
    /\ UNCHANGED <<recoDone, lifecycleVars, ctxDone, cancelPending, cancelCalls,
                   stopped, leaderVars, loopVars, workers>>

\* reconcile, first select, case updates <- ...: the channel has room.
Enqueue(c) ==
    /\ callers[c].pc = "enqueue"
    /\ Len(updates) < QueueCap
    /\ updates' = Append(updates, UpdateOf(c))
    /\ callers' = [callers EXCEPT ![c] = [@ EXCEPT !.pc = "await", !.cfg = NoConfig,
                                                    !.queued = TRUE]]
    /\ ret' = NoReturn
    /\ UNCHANGED <<recoDone, lifecycleVars, ctxDone, cancelPending, cancelCalls,
                   stopped, leaderVars, loopVars, workers>>

\* reconcile, first select, case <-stopped.
EnqueueStopped(c) ==
    /\ callers[c].pc = "enqueue"
    /\ stopped
    /\ Return(c, "stoppedEnqueue")
    /\ UNCHANGED <<recoDone, lifecycleVars, channelVars, leaderVars, loopVars, workers>>

\* EnqueueCancelled that places the update although the call gives up.
EnqueueCancelled_Placed(c) ==
    /\ callers[c].pc = "enqueue"
    /\ Len(updates) < QueueCap
    /\ updates' = Append(updates, UpdateOf(c))
    /\ callers' = [callers EXCEPT ![c] = [@ EXCEPT !.pc = "done", !.cfg = NoConfig,
                                                    !.afterStop = FALSE, !.queued = TRUE]]
    /\ ret' = [op |-> OpOf(c), res |-> "cancelledEnqueue", afterStop |-> callers[c].afterStop]
    /\ UNCHANGED <<recoDone, lifecycleVars, ctxDone, cancelPending, cancelCalls,
                   stopped, leaderVars, loopVars, workers>>

\* reconcile, first select, case <-ctx.Done(): the caller's context (for
\* the lease callback: its one minute timeout) may fire at any time.
EnqueueCancelled(c) ==
    /\ callers[c].pc = "enqueue"
    /\ Return(c, "cancelledEnqueue")
    /\ UNCHANGED <<recoDone, lifecycleVars, channelVars, leaderVars, loopVars, workers>>

\* What the caller returns for the error received on recoDone.
ResultOf(err) ==
    IF err = "nil" THEN "ok"
    ELSE IF err = "stopped" THEN "stoppedProcessing"
    ELSE IF err = "gen" THEN "generateFailed"
    ELSE "applyFailed"

\* reconcile, second select, case err := <-recoDone.
AwaitReply(c) ==
    /\ callers[c].pc = "await"
    /\ recoDone[c] # "empty"
    /\ Return(c, ResultOf(recoDone[c]))
    /\ recoDone' = [recoDone EXCEPT ![c] = "empty"]
    /\ UNCHANGED <<lifecycleVars, channelVars, leaderVars, loopVars, workers>>

\* reconcile, second select, case <-stopped. A reply that is never read
\* goes away with its channel.
AwaitStopped(c) ==
    /\ callers[c].pc = "await"
    /\ stopped
    /\ Return(c, "stoppedWaiting")
    /\ recoDone' = [recoDone EXCEPT ![c] = "empty"]
    /\ UNCHANGED <<lifecycleVars, channelVars, leaderVars, loopVars, workers>>

\* reconcile, second select, case <-ctx.Done().
AwaitCancelled(c) ==
    /\ callers[c].pc = "await"
    /\ Return(c, "cancelledWaiting")
    /\ recoDone' = [recoDone EXCEPT ![c] = "empty"]
    /\ UNCHANGED <<lifecycleVars, channelVars, leaderVars, loopVars, workers>>

\* ------------------------------------------------------- leader elector
\* The lease is acquired. Once Start has registered the callback, the
\* callback spawns a goroutine that calls reconcile() with s.serial++.
LeaderAcquire ==
    /\ ~isLeader
    /\ isLeader' = TRUE
    /\ IF callbackAdded
       THEN /\ MayStart
            /\ acquires' = acquires + 1
            /\ callers' = [callers EXCEPT ![MaxOps + acquires + 1] =
                              [@ EXCEPT !.pc = "enqueue", !.afterStop = StopHasReturned]]
       ELSE UNCHANGED <<acquires, callers>>
    /\ ret' = NoReturn
    /\ UNCHANGED <<callbackAdded, recoDone, lifecycleVars, channelVars, loopVars, workers>>

\* The lease is lost.
LeaderLose ==
    /\ isLeader
    /\ isLeader' = FALSE
    /\ ret' = NoReturn
    /\ UNCHANGED <<callbackAdded, acquires, callerVars, lifecycleVars, channelVars, loopVars, workers>>

\* ------------------------------------------------ reconciliation goroutine
Min(a, b) == IF a < b THEN a ELSE b

\* Bookkeeping when an update is received: a Reconcile update that carries
\* the configuration of the Reconcile update right before it continues the
\* streak, any other update starts a new one (a serial bump: none).
StreakOnReceive(u) ==
    IF u.kind = "config" /\ streak.len > 0 /\ desiredState.config = u.cfg
    THEN [streak EXCEPT !.len = Min(@ + 1, 2), !.prevCalled = streak.curCalled,
                        !.curCalled = FALSE]
    ELSE [NoStreak EXCEPT !.len = IF u.kind = "config" THEN 1 ELSE 0]

\* runReconciliation without the context check.
CtxCheck_Never(a) == a

\* runReconciliation: if err := ctx.Err(); err != nil.
CtxCheck(a) ==
    IF ctxDone THEN [a EXCEPT !.cancelled = TRUE, !.err = "stopped"] ELSE a

\* runReconcileLoop, case update := <-updates: done := update(&desiredState),
\* then runReconciliation up to its context check.
WorkerReceive ==
    /\ wpc = "select"
    /\ updates # <<>>
    /\ LET u == Head(updates) IN
        /\ desiredState' = ApplyUpdate(u, desiredState)
        /\ att' = CtxCheck([IdleAttempt EXCEPT !.trigger = "update", !.from = u.from,
                      !.kind = u.kind, !.cfg = u.cfg,
                      !.wasEqual = (desiredState.config # NoConfig
                                    /\ reconciledState = desiredState)])
        /\ callers' = [callers EXCEPT ![u.from] = [@ EXCEPT !.queued = FALSE]]
        /\ appliedTwice' = (appliedTwice \/ ~callers[u.from].queued)
        /\ streak' = StreakOnReceive(u)
    /\ updates' = Tail(updates)
    /\ wpc' = IF ctxDone THEN "finish" ELSE "check"
    /\ ret' = NoReturn
    /\ UNCHANGED <<reconciledState, lastRecoFailed, everLeader, recoDone,
                   lifecycleVars, ctxDone, cancelPending, cancelCalls, stopped,
                   leaderVars, workers>>

\* WorkerTick that never retries.
WorkerTick_NoRetry ==
    /\ wpc = "select"
    /\ ret' = NoReturn
    /\ UNCHANGED <<att, wpc, desiredState, reconciledState, lastRecoFailed, streak, everLeader,
                   appliedTwice, callerVars, lifecycleVars, channelVars, leaderVars, workers>>

\* runReconcileLoop, case <-retryTicker.C: retries only if lastRecoFailed;
\* then runReconciliation up to its context check.
WorkerTick ==
    /\ wpc = "select"
    /\ IF lastRecoFailed
       THEN /\ att' = CtxCheck([IdleAttempt EXCEPT !.trigger = "tick"])
            /\ wpc' = IF ctxDone THEN "finish" ELSE "check"
       ELSE UNCHANGED <<att, wpc>>
    /\ ret' = NoReturn
    /\ UNCHANGED <<desiredState, reconciledState, lastRecoFailed, streak, everLeader,
                   appliedTwice, callerVars, lifecycleVars, channelVars, leaderVars, workers>>

\* WorkerCtxDone without the deferred close(stopped).
WorkerCtxDone_NoClose ==
    /\ wpc = "select"
    /\ ctxDone
    /\ wpc' = "done"
    /\ ret' = NoReturn
    /\ UNCHANGED <<desiredState, reconciledState, lastRecoFailed, att, streak, everLeader,
                   appliedTwice, callerVars, lifecycleVars, updates, ctxDone, cancelPending,
                   cancelCalls, stopped, leaderVars, workers>>

\* runReconcileLoop, case <-ctx.Done(): return; the deferred close(stopped).
WorkerCtxDone ==
    /\ wpc = "select"
    /\ ctxDone
    /\ wpc' = "done"
    /\ stopped' = TRUE
    /\ ret' = NoReturn
    /\ UNCHANGED <<desiredState, reconciledState, lastRecoFailed, att, streak, everLeader,
                   appliedTwice, callerVars, lifecycleVars, updates, ctxDone, cancelPending,
                   cancelCalls, leaderVars, workers>>

\* runReconciliation from r.leaderElector.IsLeader() up to the call of
\* apply(ctx, resources): the skips, DeepCopy, generateResources.
RunChecks ==
    /\ wpc = "check"
    /\ everLeader' = (everLeader \/ isLeader)
    /\ LET reason == SkipReason(isLeader, desiredState, reconciledState)
           seen == [att EXCEPT !.leader = IF isLeader THEN "yes" ELSE "no"]
           copy == DeepCopy(desiredState)
       IN IF reason # "none"
          THEN /\ att' = [seen EXCEPT !.skip = reason]
               /\ wpc' = "finish"
               /\ UNCHANGED streak
          ELSE IF GenerateFails(copy)
          THEN /\ att' = [seen EXCEPT !.stateToReconcile = copy, !.err = "gen"]
               /\ wpc' = "finish"
               /\ UNCHANGED streak
          ELSE /\ att' = [seen EXCEPT !.stateToReconcile = copy,
                                      !.resources = Generate(copy), !.called = TRUE]
               /\ wpc' = "applying"
               /\ streak' = IF att.trigger = "update"
                            THEN [streak EXCEPT !.curCalled = TRUE]
                            ELSE streak
    /\ ret' = NoReturn
    /\ UNCHANGED <<desiredState, reconciledState, lastRecoFailed, appliedTwice, callerVars,
                   lifecycleVars, channelVars, leaderVars, workers>>

\* ApplyReturn that records the attempted state whether or not apply failed.
ApplyReturn_StoreOnFailure ==
    /\ wpc = "applying"
    /\ \E ok \in BOOLEAN :
        /\ reconciledState' = DeepCopy(att.stateToReconcile)
        /\ IF ok
           THEN /\ streak' = [streak EXCEPT !.ok = TRUE]
                /\ att' = [att EXCEPT !.err = "nil"]
           ELSE /\ att' = [att EXCEPT !.err = "apply"]
                /\ UNCHANGED streak
    /\ wpc' = "finish"
    /\ ret' = NoReturn
    /\ UNCHANGED <<desiredState, lastRecoFailed, everLeader, appliedTwice, callerVars,
                   lifecycleVars, channelVars, leaderVars, workers>>

\* ApplyReturn that does not record the applied state.
ApplyReturn_NoStore ==
    /\ wpc = "applying"
    /\ \E ok \in BOOLEAN :
        IF ok
        THEN /\ streak' = [streak EXCEPT !.ok = TRUE]
             /\ att' = [att EXCEPT !.err = "nil"]
        ELSE /\ att' = [att EXCEPT !.err = "apply"]
             /\ UNCHANGED streak
    /\ wpc' = "finish"
    /\ ret' = NoReturn
    /\ UNCHANGED <<desiredState, reconciledState, lastRecoFailed, everLeader, appliedTwice,
                   callerVars, lifecycleVars, channelVars, leaderVars, workers>>

\* apply(ctx, resources) returns: on success
\* stateToReconcile.DeepCopyInto(&reconciledState), on failure the error.
ApplyReturn ==
    /\ wpc = "applying"
    /\ \E ok \in BOOLEAN :
        IF ok
        THEN /\ reconciledState' = DeepCopy(att.stateToReconcile)
             /\ streak' = [streak EXCEPT !.ok = TRUE]
             /\ att' = [att EXCEPT !.err = "nil"]
        ELSE /\ att' = [att EXCEPT !.err = "apply"]
             /\ UNCHANGED <<reconciledState, streak>>
    /\ wpc' = "finish"
    /\ ret' = NoReturn
    /\ UNCHANGED <<desiredState, lastRecoFailed, everLeader, appliedTwice, callerVars,
                   lifecycleVars, channelVars, leaderVars, workers>>

\* NextRecoFailed in which a retry on a tick never clears the flag.
NextRecoFailed_TickKeeps(trigger, err, flag) ==
    IF trigger = "update" THEN err # "nil" ELSE flag

\* NextRecoFailed in which a retry on a tick clears the flag even when it
\* failed.
NextRecoFailed_TickClears(trigger, err, flag) ==
    IF trigger = "update" THEN err # "nil" ELSE FALSE

\* lastRecoFailed after an attempt: an update sets it to the outcome, a
\* tick clears it on success and `continue`s on failure.
NextRecoFailed(trigger, err, flag) ==
    IF trigger = "update" THEN err # "nil"
    ELSE IF err # "nil" THEN flag ELSE FALSE

\* Finish that forgets done <- err.
Finish_NoReply ==
    /\ wpc = "finish"
    /\ lastRecoFailed' = NextRecoFailed(att.trigger, att.err, lastRecoFailed)
    /\ att' = IdleAttempt
    /\ wpc' = "select"
    /\ ret' = NoReturn
    /\ UNCHANGED <<desiredState, reconciledState, streak, everLeader, appliedTwice, callers,
                   recoDone, lifecycleVars, channelVars, leaderVars, workers>>

\* Finish sending on a reply channel without a buffer: the send needs the
\* caller to be waiting.
Finish_Unbuffered ==
    /\ wpc = "finish"
    /\ att.trigger = "update" => callers[att.from].pc = "await"
    /\ recoDone' = IF att.trigger = "update"
                   THEN [recoDone EXCEPT ![att.from] = att.err]
                   ELSE recoDone
    /\ lastRecoFailed' = NextRecoFailed(att.trigger, att.err, lastRecoFailed)
    /\ att' = IdleAttempt
    /\ wpc' = "select"
    /\ ret' = NoReturn
    /\ UNCHANGED <<desiredState, reconciledState, streak, everLeader, appliedTwice, callers,
                   lifecycleVars, channelVars, leaderVars, workers>>

\* runReconcileLoop after runReconciliation returned: for an update
\* done <- err, lastRecoFailed = err != nil, close(done); for a tick the
\* flag handling. Back to the select. The send never blocks (the channel
\* has room for one value); a value sent to a caller that has already
\* returned is never read and goes away with its channel.
Finish ==
    /\ wpc = "finish"
    /\ recoDone' = IF att.trigger = "update" /\ callers[att.from].pc = "await"
                   THEN [recoDone EXCEPT ![att.from] = att.err]
                   ELSE recoDone
    /\ lastRecoFailed' = NextRecoFailed(att.trigger, att.err, lastRecoFailed)
    /\ att' = IdleAttempt
    /\ wpc' = "select"
    /\ ret' = NoReturn
    /\ UNCHANGED <<desiredState, reconciledState, streak, everLeader, appliedTwice, callers,
                   lifecycleVars, channelVars, leaderVars, workers>>

\* ------------------------------------------------------- specification
Next ==
    \/ InitCall
    \/ StartCall
    \/ \E s \in Stoppers : StopCall(s)
    \/ \E s \in Stoppers : StopReturn(s)
    \/ RequestStop
    \/ \E c \in ReconcileCalls, cfg \in Configs : ReconcileCall(c, cfg)
    \/ \E c \in Callers : Enqueue(c)
    \/ \E c \in Callers : EnqueueStopped(c)
    \/ \E c \in Callers : EnqueueCancelled(c)
    \/ \E c \in Callers : AwaitReply(c)
    \/ \E c \in Callers : AwaitStopped(c)
    \/ \E c \in Callers : AwaitCancelled(c)
    \/ LeaderAcquire
    \/ LeaderLose
    \/ WorkerReceive
    \/ WorkerTick
    \/ WorkerCtxDone
    \/ RunChecks
    \/ ApplyReturn
    \/ Finish

Spec == Init /\ [][Next]_vars

\* Scheduling: every goroutine that can take a step eventually takes it, the
\* Apply Port call returns, and the select of the reconciliation loop, which
\* picks at random among its ready cases, eventually picks <-ctx.Done() when
\* that case is ready again and again.
Fairness ==
    /\ WF_vars(RequestStop)
    /\ WF_vars(RunChecks)
    /\ WF_vars(ApplyReturn)
    /\ WF_vars(Finish)
    /\ SF_vars(WorkerCtxDone)
    /\ \A s \in Stoppers : WF_vars(StopReturn(s))

FairSpec == Spec /\ Fairness

\* Scheduling of the goroutines blocked in reconcile(): once the stopped
\* channel is closed, a caller blocked in one of the two selects proceeds.
\* (Nothing is assumed about the callers' own contexts.)
CallerFairness ==
    WF_vars(\E c \in Callers : EnqueueStopped(c) \/ AwaitStopped(c))

FairCallSpec == Spec /\ Fairness /\ CallerFairness

\* The Apply Port call returns nil.
ApplySucceeds == ApplyReturn /\ att'.err = "nil"

\* The retry ticker keeps firing and the loop takes its ticks; the Apply
\* Port, called again and again, eventually succeeds.
RetryFairness ==
    /\ WF_vars(WorkerTick)
    /\ SF_vars(ApplySucceeds)

RetrySpec == Spec /\ Fairness /\ RetryFairness

\* ------------------------------------------------------------ properties
InAttempt == wpc \in {"check", "applying", "finish"}

\* C1 as stated: while no attempt has seen IsLeader() = true, the Apply Port
\* is not called, reconciledState keeps its initial value and every update
\* is answered with success (nil).
C1_Original ==
    ~everLeader =>
        /\ wpc # "applying"
        /\ reconciledState = ZeroSnapshot
        /\ (wpc = "finish" /\ att.trigger = "update" => att.err = "nil")

\* C1 amended: while no attempt has seen IsLeader() = true, the Apply Port is
\* not called and reconciledState keeps its initial value; every update is
\* answered with success, except that an update received after the worker's
\* context was cancelled is answered with the stopped-concurrently error.
C1_NotLeaderNoApply ==
    ~everLeader =>
        /\ wpc # "applying"
        /\ ~att.called
        /\ reconciledState = ZeroSnapshot
        /\ (wpc = "finish" =>
               \/ att.err = "nil"
               \/ att.err = "stopped" /\ att.cancelled /\ ctxDone)
        /\ \A c \in Callers : recoDone[c] \in {"empty", "nil", "stopped"}

\* A Reconcile update with a configuration was answered while not leader.
C1_Witness ==
    /\ ~everLeader
    /\ wpc = "finish"
    /\ att.trigger = "update"
    /\ att.leader = "no"
    /\ att.err = "nil"
    /\ desiredState.config # NoConfig

\* C2 as stated: whenever the Apply Port is being invoked, IsLeader() is
\* true at that moment.
C2_Original == wpc = "applying" => isLeader

\* C2 amended: the Apply Port is invoked only by an attempt whose own
\* IsLeader() query returned true; the lease may be lost while the call is
\* in progress.
C2_ApplyOnlyAfterLeaderCheck ==
    wpc = "applying" => att.leader = "yes" /\ att.called /\ everLeader

\* The Apply Port is being invoked and the lease has been lost meanwhile.
C2_Witness == wpc = "applying" /\ att.leader = "yes" /\ ~isLeader

\* C3 as stated: of two consecutive Reconcile updates with deeply equal
\* configurations, at most one calls the Apply Port.
C3_Original == streak.len = 2 => ~(streak.prevCalled /\ streak.curCalled)

\* C3 amended: over consecutive Reconcile updates with deeply equal
\* configurations at most one Apply Port call succeeds: once one has
\* succeeded, no later attempt of the streak (update or retry) calls the
\* Apply Port; after a failed call the next attempt calls it again.
C3_AtMostOneSuccessfulApply ==
    streak.len >= 1 /\ streak.ok =>
        /\ wpc # "applying"
        /\ (att.called => wpc = "finish" /\ att.err = "nil")
        /\ reconciledState = desiredState

\* The second of two equal Reconcile updates was skipped as unchanged after
\* the first one's apply succeeded.
C3_Witness ==
    /\ streak.len = 2
    /\ streak.ok
    /\ wpc = "finish"
    /\ att.trigger = "update"
    /\ att.skip = "unchanged"

\* C4: reconciledState changes only in the step in which an Apply Port call
\* returns success, and then equals the desiredState of that attempt (which
\* does not change during an attempt); an attempt that ends with a generator
\* or apply error leaves reconciledState unchanged; a retry on a tick calls
\* the Apply Port with the resources generated from the desiredState.
C4_ReconciledOnlyOnSuccess ==
    [][ /\ (InAttempt => desiredState' = desiredState)
        /\ (reconciledState' # reconciledState =>
               /\ wpc = "applying" /\ wpc' = "finish"
               /\ att'.err = "nil"
               /\ reconciledState' = desiredState)
        /\ (wpc # "finish" /\ wpc' = "finish" /\ att'.err \in {"gen", "apply"} =>
               reconciledState' = reconciledState)
        /\ (wpc # "applying" /\ wpc' = "applying" /\ att'.trigger = "tick" =>
               /\ lastRecoFailed
               /\ att'.stateToReconcile = desiredState
               /\ att'.resources = Generate(desiredState))
      ]_vars

\* A retry on a tick has applied the desired state that had failed before.
C4_Witness ==
    /\ wpc = "finish"
    /\ att.trigger = "tick"
    /\ att.called
    /\ att.err = "nil"
    /\ reconciledState = desiredState

StoppedErrors == {"stoppedEnqueue", "stoppedWaiting", "stoppedProcessing"}
CancelledErrors == {"cancelledEnqueue", "cancelledWaiting"}

\* C5 as stated: once a Stop() call has returned, the Apply Port is not
\* called any more and every call made afterwards that does not end by its
\* own cancellation fails with the stopped-concurrently error.
C5_Original ==
    /\ (StopHasReturned => wpc = "done")
    /\ (ret.afterStop /\ ret.res \notin CancelledErrors => ret.res \in StoppedErrors)

\* C5 amended: once a Stop() call has returned, the worker has exited, so the
\* Apply Port is not called any more and no later update is applied or
\* answered; a Reconcile call made afterwards fails with the invalid-state
\* error (the state is stopped), a lease callback made afterwards fails with
\* the stopped-concurrently error raised by reconcile() or with its own
\* cancellation cause.
C5_AfterStop ==
    /\ (StopHasReturned =>
           /\ wpc = "done" /\ stopped /\ ctxDone
           /\ r.state = "stopped"
           /\ \A c \in Callers : callers[c].afterStop => recoDone[c] = "empty")
    /\ (ret.afterStop =>
           IF ret.op = "Reconcile"
           THEN ret.res = "invalidState"
           ELSE ret.res \in {"stoppedEnqueue", "stoppedWaiting"} \cup CancelledErrors)

\* A lease callback made after Stop() returned has placed its update on the
\* queue and failed while waiting for the reply.
C5_Witness ==
    /\ ret.afterStop
    /\ ret.op = "callback"
    /\ ret.res = "stoppedWaiting"

\* C6 as stated: a serial bump applied to an already reconciled, unchanged
\* configuration results in an Apply Port call by its attempt (read with the
\* worker not being stopped meanwhile).
C6_Original ==
    wpc = "finish" /\ att.kind = "serial" /\ att.wasEqual /\ ~att.cancelled => att.called

\* C6 amended: a serial bump makes desiredState differ from reconciledState,
\* so its attempt is never skipped as unchanged; applied to an already
\* reconciled, unchanged configuration the attempt calls the Apply Port
\* exactly once if it is not cancelled and IsLeader() is still true at its
\* check, and makes no call otherwise.
C6_SerialBumpForcesApply ==
    /\ (InAttempt /\ att.kind = "serial" =>
           /\ att.skip # "unchanged"
           /\ (reconciledState = desiredState =>
                  wpc = "finish" /\ att.called /\ att.err = "nil"))
    /\ (wpc = "finish" /\ att.kind = "serial" /\ att.wasEqual =>
           (att.called <=> (~att.cancelled /\ att.leader = "yes")))

\* A serial bump on a reconciled, unchanged configuration was applied.
C6_Witness ==
    /\ wpc = "finish"
    /\ att.kind = "serial"
    /\ att.wasEqual
    /\ att.called
    /\ att.err = "nil"

\* C7: updates are taken from the head of the queue and applied only while
\* the worker is at its select, that is after the attempt of the update
\* before has ended and its outcome was sent; during an attempt desiredState
\* holds the mutation of the update that triggered it; a waiting caller
\* whose update was taken and whose attempt is over has its reply.
C7_Serialized ==
    /\ [](InAttempt /\ att.trigger = "update" =>
             IF att.kind = "config"
             THEN desiredState.config = att.cfg
             ELSE desiredState.serial > reconciledState.serial \/ att.called)
    /\ [](\A c \in Callers :
             callers[c].pc = "await" /\ ~callers[c].queued =>
                 \/ recoDone[c] # "empty"
                 \/ InAttempt /\ att.trigger = "update" /\ att.from = c)
    /\ [][ desiredState' # desiredState =>
             /\ wpc = "select"
             /\ updates # <<>>
             /\ desiredState' = ApplyUpdate(Head(updates), desiredState)
             /\ updates' = Tail(updates)
             /\ att'.from = Head(updates).from
         ]_vars

\* Two concurrent Reconcile calls: the attempt of the first is calling the
\* Apply Port while the update of the second, with another configuration,
\* waits in the queue.
C7_Witness ==
    /\ wpc = "applying"
    /\ att.trigger = "update"
    /\ att.kind = "config"
    /\ updates # <<>>
    /\ Head(updates).kind = "config"
    /\ Head(updates).cfg # desiredState.config

\* C8 as stated: the queue holds at most one update, no update is applied
\* twice, and none is lost: no update is left on the queue when the worker
\* has exited.
C8_Original ==
    /\ Len(updates) <= QueueCap
    /\ ~appliedTwice
    /\ (wpc = "done" => updates = <<>>)

\* C8 amended: the queue holds at most one update and no update is applied
\* twice; an update placed on the queue stays there until the worker takes
\* it, also when its caller has given up, and is then applied once; an
\* update still on the queue when the worker exits is never applied.
C8_AtMostOnce ==
    /\ Len(updates) <= QueueCap
    /\ ~appliedTwice
    /\ \A c \in Callers :
           callers[c].queued <=> (\E i \in 1..Len(updates) : updates[i].from = c)
    /\ \A c \in Callers : recoDone[c] # "empty" => ~callers[c].queued

\* The update of a caller that gave up was applied nevertheless.
C8_Witness ==
    /\ wpc = "check"
    /\ att.trigger = "update"
    /\ callers[att.from].pc = "done"
    /\ ~callers[att.from].queued

\* C9: the lifecycle state only moves created -> initialized -> started ->
\* stopped; a call that returns the invalid-state error was made in a state
\* its operation does not accept and changes nothing but the return value;
\* a Reconcile call enters reconcile() only in the started state; at most
\* one worker is ever spawned.
C9_Lifecycle ==
    /\ [](workers <= 1)
    /\ [](ret.res = "invalidState" =>
             \/ ret.op = "Init" /\ r.state # "created"
             \/ ret.op = "Start" /\ r.state # "initialized"
             \/ ret.op = "Stop" /\ r.state \notin {"started", "stopped"}
             \/ ret.op = "Reconcile" /\ r.state # "started")
    /\ [][ /\ (r'.state # r.state =>
                 <<r.state, r'.state>> \in {<<"created", "initialized">>,
                                            <<"initialized", "started">>,
                                            <<"started", "stopped">>})
           /\ (ret'.res = "invalidState" /\ ret'.op # "Reconcile" =>
                 UNCHANGED <<lifecycleVars, channelVars, leaderVars, loopVars,
                             callerVars, workers>>)
           /\ (ret'.res = "invalidState" /\ ret'.op = "Reconcile" =>
                 UNCHANGED <<lifecycleVars, channelVars, leaderVars, loopVars,
                             recoDone, workers>>)
           /\ (\A c \in ReconcileCalls :
                 callers[c].pc = "idle" /\ callers'[c].pc = "enqueue" =>
                     r.state = "started")
           /\ (wpc' # wpc /\ wpc = "none" => r.state = "initialized" /\ r'.state = "started")
         ]_vars

\* Start was refused after Stop: no restart.
C9_Witness ==
    /\ ret = InvalidState("Start")
    /\ r.state = "stopped"
    /\ workers = 1

\* C10: a Stop call returns only after the worker loop has returned and the
\* stopped channel is closed; the cancellation is requested exactly once,
\* by the Stop call that moves the state to stopped; and every Stop call
\* that waits for the stopped channel eventually returns (a Stop call that
\* waits can only return, so this is: again and again no Stop call waits).
C10_StopWaitsForWorker ==
    /\ [](\A s \in Stoppers : stopPc[s] = "returned" => wpc = "done" /\ stopped /\ ctxDone)
    /\ [](cancelCalls = IF r.state = "stopped" THEN 1 ELSE 0)
    /\ []<>(\A s \in Stoppers : stopPc[s] # "waiting")

\* Two Stop calls have returned, the second one made while the first was
\* still waiting for the worker.
C10_Witness ==
    /\ \A s \in 1..2 : stopPc[s] = "returned"
    /\ wpc = "done"
    /\ cancelCalls = 1

ReplyResults == {"ok", "stoppedProcessing", "generateFailed", "applyFailed"}
InFlight(c) == callers[c].pc \in {"enqueue", "await"}

C12_Original ==
    [][ /\ (ret'.res \in CancelledErrors => UNCHANGED <<desiredState, reconciledState, r>>)
        /\ (desiredState' # desiredState => callers[Head(updates).from].pc # "done")
        /\ (reconciledState' # reconciledState /\ att.trigger = "update" =>
               callers[att.from].pc # "done")
      ]_vars

\* C12 amended: a call whose context fires returns the cancellation cause
\* and the return itself changes no shared state. A call that gives up in
\* the first wait never places its update. A call that gives up in the
\* second wait has placed it already: whoever returns without a reply while
\* the worker runs does so with the cancellation cause, the update stays on
\* the queue and the worker still applies it to desiredState and reconciles.
C12_CancelledCall ==
    [][ /\ (ret'.res \in CancelledErrors =>
               UNCHANGED <<lifecycleVars, channelVars, leaderVars, loopVars, workers>>)
        /\ (\A c \in Callers :
               /\ (callers[c].pc = "enqueue" /\ callers'[c].pc = "done" =>
                      /\ ~callers'[c].queued
                      /\ \A i \in 1..Len(updates') : updates'[i].from # c)
               /\ (callers'[c].queued /\ ~callers[c].queued =>
                      callers[c].pc = "enqueue" /\ callers'[c].pc = "await")
               /\ (callers[c].pc = "await" /\ callers'[c].pc = "done"
                    /\ wpc # "done" /\ recoDone[c] = "empty" =>
                      /\ ret'.res = "cancelledWaiting"
                      /\ callers'[c].queued = callers[c].queued))
        /\ (desiredState' # desiredState /\ callers[Head(updates).from].pc = "done" =>
               /\ callers[Head(updates).from].queued
               /\ desiredState' = ApplyUpdate(Head(updates), desiredState))
      ]_vars

\* The configuration of a Reconcile call that gave up while waiting for
\* its reply has been applied and reconciled.
C12_Witness ==
    /\ wpc = "finish"
    /\ att.trigger = "update"
    /\ att.kind = "config"
    /\ callers[att.from].pc = "done"
    /\ att.called /\ att.err = "nil"
    /\ reconciledState.config = att.cfg

\* No stop is requested, the instance is the leader and no update is on its
\* way to the worker.
Quiet ==
    /\ r.state = "started" /\ ~ctxDone /\ cancelPending = 0
    /\ isLeader
    /\ updates = <<>>
    /\ \A c \in Callers : callers[c].pc # "enqueue"

\* The worker is idle, the failed flag is clear and nothing is left to do.
Settled == wpc = "select" /\ ~lastRecoFailed /\ reconciledState = desiredState

\* C13 as stated: from a failed attempt on (the worker idle with the failed
\* flag set), unless a stop is requested, the lease is lost or a new update
\* arrives, the retries on the ticks eventually make reconciledState equal
\* desiredState with the flag cleared.
C13_Original == (wpc = "select" /\ lastRecoFailed) ~> (~Quiet \/ Settled)

\* C13 amended: the same for a desiredState from which the resources can be
\* generated; the worker leaves its loop only when its context is cancelled,
\* a tick with the flag set always starts an attempt, and that attempt works
\* on the unchanged desiredState.
C13_RetriedUntilSuccess ==
    /\ [](wpc = "done" => ctxDone)
    /\ [](wpc = "select" /\ lastRecoFailed => ENABLED (WorkerTick /\ att'.trigger = "tick"))
    /\ [][wpc = "select" /\ att'.trigger = "tick" =>
             lastRecoFailed /\ desiredState' = desiredState]_vars
    /\ (wpc = "select" /\ lastRecoFailed /\ ~GenerateFails(desiredState))
           ~> (~Quiet \/ Settled)

\* A retry on a tick, with no stop requested, the lease held and no update
\* on its way, has succeeded after a failure; the flag is about to be
\* cleared.
C13_Witness ==
    /\ wpc = "finish"
    /\ att.trigger = "tick"
    /\ att.called /\ att.err = "nil"
    /\ lastRecoFailed
    /\ Quiet

\* C14 as stated: once the worker's context is cancelled, no Resource
\* Generator or Apply Port call is started (an attempt gets past its skips
\* only while the context is not cancelled).
C14_Original ==
    [][wpc = "check" /\ wpc' # "check" /\ att'.skip = "none" => ~ctxDone]_vars

\* C14 amended: an attempt that begins after the cancellation, for an update
\* or for a tick, fails with the stopped-concurrently error before the
\* leader, null-configuration and equality checks and calls neither the
\* Resource Generator nor the Apply Port; only attempts whose context check
\* passed get to the checks and the calls (the cancellation may arrive
\* between that check and the calls).
C14_NoAttemptAfterCancel ==
    /\ [](att.cancelled =>
             /\ wpc = "finish" /\ ctxDone
             /\ att.err = "stopped"
             /\ att.leader = "unchecked" /\ att.skip = "none"
             /\ ~att.called /\ att.resources = <<>>)
    /\ [](wpc \in {"check", "applying"} => ~att.cancelled)
    /\ [][wpc = "select" /\ wpc' \in {"check", "applying", "finish"} /\ ctxDone =>
             att'.cancelled /\ wpc' = "finish"]_vars

\* A retry on a tick taken after the cancellation has failed at once.
C14_Witness ==
    /\ wpc = "finish"
    /\ att.trigger = "tick"
    /\ att.cancelled
    /\ desiredState # reconciledState

\* The next Stop call / Reconcile call in the order of the calls.
NextStopper(s) ==
    stopPc[s] = "idle" /\ \A q \in Stoppers : q < s => stopPc[q] # "idle"
NextReconcile(c) ==
    callers[c].pc = "idle" /\ \A d \in ReconcileCalls : d < c => callers[d].pc # "idle"

C16_WorkerNeverBlocksOnProducer ==
    /\ [](wpc = "finish" => ENABLED Finish)
    /\ [](wpc = "check" => ENABLED RunChecks)
    /\ [](wpc = "finish" /\ att.trigger = "update" => recoDone[att.from] = "empty")
    /\ [][ /\ (\A c \in Callers :
                  recoDone'[c] # recoDone[c] /\ recoDone'[c] # "empty" =>
                      /\ recoDone[c] = "empty"
                      /\ wpc = "finish" /\ wpc' = "select"
                      /\ att.trigger = "update" /\ att.from = c
                      /\ recoDone'[c] = att.err)
           /\ (wpc = "finish" /\ att.trigger = "update" /\ wpc' # wpc
               /\ callers[att.from].pc = "await" => recoDone'[att.from] = att.err)
         ]_vars

\* An attempt for an update whose caller has given up is over, with an
\* error to report.
C16_Witness ==
    /\ wpc = "finish"
    /\ att.trigger = "update"
    /\ att.err = "apply"
    /\ callers[att.from].pc = "done"

\* C17: the failed flag changes only when an attempt ends and is then
\* "this attempt returned an error": an attempt for an update sets it to its
\* outcome, an attempt for a tick (made only with the flag set) clears it on
\* success and leaves it set on failure; with the flag clear the worker
\* leaves its select only for an update or to exit, so a tick then makes no
\* attempt and no Apply Port call.
C17_FailedFlag ==
    [][ /\ (lastRecoFailed' # lastRecoFailed => wpc = "finish" /\ wpc' = "select")
        /\ (wpc = "finish" /\ wpc' = "select" =>
               /\ lastRecoFailed' = (att.err # "nil")
               /\ (att.trigger = "tick" => lastRecoFailed))
        /\ (att'.trigger = "tick" /\ att.trigger # "tick" => wpc = "select" /\ lastRecoFailed)
        /\ (wpc = "select" /\ ~lastRecoFailed /\ wpc' \notin {"select", "done"} =>
               updates # <<>> /\ updates' = Tail(updates) /\ att'.trigger = "update")
      ]_vars

\* A retry on a tick has failed again: the flag stays set.
C17_Witness ==
    /\ wpc = "finish"
    /\ att.trigger = "tick"
    /\ att.err = "apply"
    /\ lastRecoFailed

\* C18 as stated: as long as desiredState has no configuration, the Apply
\* Port is not called and every update, serial bumps included, is answered
\* with success.
C18_Original ==
    desiredState.config = NoConfig =>
        /\ wpc # "applying"
        /\ (wpc = "finish" /\ att.trigger = "update" => att.err = "nil")

\* C18 amended: as long as desiredState has no configuration, neither the
\* Resource Generator nor the Apply Port is called and reconciledState has
\* no configuration either; every update, serial bumps included, is
\* answered with success unless it was received after the worker's context
\* was cancelled (then: stopped concurrently); an attempt that sees the
\* lease is skipped as incomplete. While nothing has been reconciled yet, a
\* Reconcile update whose attempt sees the lease is not skipped: the
\* resources are generated from desiredState and, unless that fails, the
\* Apply Port is called.
C18_NothingReceived ==
    /\ [](desiredState.config = NoConfig =>
             /\ wpc # "applying"
             /\ ~att.called /\ att.resources = <<>>
             /\ reconciledState.config = NoConfig
             /\ (wpc = "finish" =>
                    \/ att.err = "nil"
                    \/ att.err = "stopped" /\ att.cancelled)
             /\ (wpc = "finish" /\ att.leader = "yes" => att.skip = "incomplete"))
    /\ [][wpc = "check" /\ wpc' # "check" /\ att.kind = "config" /\ isLeader
          /\ reconciledState.config = NoConfig =>
             /\ att'.skip = "none"
             /\ att'.stateToReconcile = desiredState
             /\ (att'.called \/ att'.err = "gen")]_vars

\* A serial bump was processed by the leader before any configuration was
\* received: desiredState differs from reconciledState, the attempt was
\* skipped as incomplete and reports success.
C18_Witness ==
    /\ wpc = "finish"
    /\ att.kind = "serial"
    /\ att.leader = "yes"
    /\ att.skip = "incomplete"
    /\ att.err = "nil"
    /\ desiredState # reconciledState

\* C19: when the attempt of a Reconcile(C) update has seen the lease and
\* ends with success, then, at the moment the outcome is sent,
\* reconciledState equals desiredState and its configuration is C: the
\* attempt has applied it, or it was the reconciled state already.
C19_SuccessWhileLeaderMeansApplied ==
    wpc = "finish" /\ att.trigger = "update" /\ att.kind = "config"
    /\ att.leader = "yes" /\ att.err = "nil" =>
        /\ reconciledState = desiredState
        /\ reconciledState.config = att.cfg
        /\ (att.called \/ att.skip = "unchanged")
        /\ (att.called => att.stateToReconcile = desiredState
                          /\ att.resources = Generate(desiredState))

\* The attempt of a Reconcile update has applied its configuration as
\* leader and is about to answer its waiting caller with success.
C19_Witness ==
    /\ wpc = "finish"
    /\ att.trigger = "update" /\ att.kind = "config"
    /\ att.leader = "yes" /\ att.err = "nil" /\ att.called
    /\ callers[att.from].pc = "await"
    /\ reconciledState.config = att.cfg

\* C20: the worker idle at its select with a desiredState that has a
\* configuration and differs from reconciledState has the failed flag set,
\* or its most recent attempt was skipped for not being the leader. Before
\* the worker starts there is no configuration; whenever an attempt ends
\* and leaves such a difference, the flag is set by it or it was skipped as
\* not leader; and while the worker stays at its select, desiredState,
\* reconciledState and the flag do not change.
C20_PendingDifferenceExplained ==
    /\ [](wpc = "none" => desiredState = ZeroSnapshot /\ ~lastRecoFailed)
    /\ [][ /\ (wpc # "select" /\ wpc' = "select"
                /\ desiredState'.config # NoConfig
                /\ desiredState' # reconciledState' =>
                   /\ wpc = "finish"
                   /\ (lastRecoFailed' \/ att.skip = "notLeader"))
           /\ (wpc = "select" /\ wpc' = "select" =>
                   UNCHANGED <<desiredState, reconciledState, lastRecoFailed>>)
         ]_vars

\* The worker is idle with a configuration that is not reconciled and the
\* failed flag clear: nothing retries until the lease callback or another
\* update arrives.
C20_Witness ==
    /\ wpc = "select"
    /\ ~lastRecoFailed
    /\ desiredState.config # NoConfig
    /\ desiredState # reconciledState
    /\ updates = <<>> /\ ~ctxDone

====
